---- MODULE Spec2Model ----
(***************************************************************************)
(* Model of pdf2docx_pro.py: the content validity scorer, the OCR paragraph *)
(* reconstruction, the per-document conversion pipeline, the batch          *)
(* coordinator and the quality gate.                                        *)
(*                                                                          *)
(* Text is a sequence of one-character strings.  Ratios are exact           *)
(* fractions <<num, den>> (0.1 is <<1, 10>>); confidences are percentages   *)
(* (0.6 is 60); coordinates are integers.                                   *)
(***************************************************************************)
EXTENDS Integers, Sequences, FiniteSets, TLC

VARIABLES
    arg,              \* input of the pure function under check (function specifications)
    ret,              \* <<>> before the call, <<value>> after it
    mode,             \* "batch" (process_files + check_and_fix_files) or "single"
    size_threshold,   \* bytes threshold of the quality gate
    max_workers,      \* size of the worker pool
    entries,          \* directory entry d -> [name, pdf]
    pc,               \* position of the task of entry d
    mem,              \* the Document built in memory by the direct path of d
    fs,               \* docx_path -> the file there: <<>> (no file) or <<artifact>>
    collected,        \* the futures as_completed has handed to the main thread
    processed_files,  \* the list process_files builds
    mainpc,           \* position of the main thread
    loop_i,           \* index of the main thread's current loop (listing, then audit)
    hist,             \* per entry: what the run did (scoring outcome, OCR passes, log)
    faults            \* how many faults the environment has raised in this run

vars == <<arg, ret, mode, size_threshold, max_workers, entries, pc, mem, fs, collected,
          processed_files, mainpc, loop_i, hist, faults>>

pipevars == <<mode, size_threshold, max_workers, entries, pc, mem, fs, collected,
              processed_files, mainpc, loop_i, hist, faults>>

(***************************************************************************)
(* Bounds                                                                   *)
(***************************************************************************)
MaxLen == 5          \* longest string drawn for is_valid_content
MaxDets == 3         \* most detections on a page drawn for the OCR reconstruction
MaxPages == 2        \* most pages of a document
NumDocs == 2         \* directory entries of a batch run
MaxFaults == 2       \* most faults the environment raises in one run
MaxName == 4         \* most pieces of a file name drawn for the output paths

(***************************************************************************)
(* Program constants                                                        *)
(***************************************************************************)
ConfFloor == 60      \* confidence < 0.6 is skipped
GapThreshold == 20   \* abs(y_coord - last_y) > 20 starts a paragraph
MinTextLen == 50     \* len(text) < 50 is a poor extraction
DefaultSizeKB == 15  \* --size_threshold default, in KB
DefaultWorkers == 4  \* max_workers default
LooseRatio == <<1, 10>>   \* min_valid_ratio default 0.1
StrictRatio == <<2, 10>>  \* min_valid_ratio=0.2

(***************************************************************************)
(* Text helpers                                                             *)
(***************************************************************************)
\* the characters Python counts as whitespace, in str.strip() and as the
\* complement of \S: the ASCII ones, and the Unicode ones written by code point
Whitespace ==
    {" ", "\t", "\n", "\r", "\f", "U+000B", "U+001C", "U+001D", "U+001E", "U+001F",
     "U+0085", "U+00A0", "U+1680", "U+2000", "U+2001", "U+2002", "U+2003", "U+2004",
     "U+2005", "U+2006", "U+2007", "U+2008", "U+2009", "U+200A", "U+2028", "U+2029",
     "U+202F", "U+205F", "U+3000"}

Rep(c, n) == [i \in 1..n |-> c]

RECURSIVE JoinWith(_, _)
\* sep.join(parts)
JoinWith(sep, parts) ==
    IF parts = <<>> THEN <<>>
    ELSE IF Len(parts) = 1 THEN parts[1]
    ELSE parts[1] \o sep \o JoinWith(sep, Tail(parts))

RECURSIVE LStrip(_)
LStrip(s) == IF s # <<>> /\ s[1] \in Whitespace THEN LStrip(Tail(s)) ELSE s

RECURSIVE RStrip(_)
RStrip(s) ==
    IF s # <<>> /\ s[Len(s)] \in Whitespace THEN RStrip(SubSeq(s, 1, Len(s) - 1)) ELSE s

\* str.strip()
Strip(s) == RStrip(LStrip(s))

IsNonWhitespace(c) == c \notin Whitespace

\* re.findall(r'\S', text)
FindallNonWs(text) == SelectSeq(text, IsNonWhitespace)

(***************************************************************************)
(* is_valid_content                                                         *)
(***************************************************************************)
\* is_valid_content with >= in place of >
is_valid_content_ge(text, min_valid_ratio) ==
    LET total_chars == Len(text)
        valid_chars == Len(FindallNonWs(text))
    IN  IF total_chars > 0
        THEN valid_chars * min_valid_ratio[2] >= min_valid_ratio[1] * total_chars
        ELSE FALSE

is_valid_content(text, min_valid_ratio) ==
    LET total_chars == Len(text)
        valid_chars == Len(FindallNonWs(text))
    IN  IF total_chars > 0
        THEN valid_chars * min_valid_ratio[2] > min_valid_ratio[1] * total_chars
        ELSE FALSE

(***************************************************************************)
(* OCR paragraph reconstruction (one page)                                  *)
(***************************************************************************)
\* A detection as the engine returns it: [quadrilateral, (text, confidence)]
Block(top, bottom, text, conf) ==
    << << <<0, top>>, <<1, top>>, <<1, bottom>>, <<0, bottom>> >>, <<text, conf>> >>

TopY(block) == block[1][1][2]        \* x[0][0][1]
BottomY(block) == block[1][3][2]     \* coords[2][1]
BlockText(block) == block[2][1]
BlockConf(block) == block[2][2]

Abs(x) == IF x < 0 THEN -x ELSE x

\* one step of sorted(): the block goes behind every block whose key is not
\* greater (sorted() is stable)
SortInsert(sorted, b) ==
    LET k == Cardinality({i \in 1..Len(sorted) : TopY(sorted[i]) <= TopY(b)})
    IN  SubSeq(sorted, 1, k) \o <<b>> \o SubSeq(sorted, k + 1, Len(sorted))

RECURSIVE SortFrom(_, _)
SortFrom(sorted, rest) ==
    IF rest = <<>> THEN sorted ELSE SortFrom(SortInsert(sorted, rest[1]), Tail(rest))

\* the blocks walked in the order the OCR engine returned them, without the sort
sorted_blocks_arrival(blocks) == blocks

\* sorted(result[0], key=lambda x: x[0][0][1])
sorted_blocks(blocks) == SortFrom(<<>>, blocks)

WalkInit == [paragraphs |-> <<>>, current_paragraph |-> <<>>, last_y |-> <<>>]

\* body of the loop over sorted_blocks with the confidence test placed after
\* the coordinates are read: a skipped block still moves last_y
WalkStepLateSkip(w, block) ==
    IF BlockConf(block) < ConfFloor THEN [w EXCEPT !.last_y = <<BottomY(block)>>]
    ELSE LET y_coord == TopY(block)
             flush == /\ w.last_y # <<>>
                      /\ Abs(y_coord - w.last_y[1]) > GapThreshold
                      /\ w.current_paragraph # <<>>
         IN  [paragraphs |-> IF flush
                             THEN Append(w.paragraphs, JoinWith(<<" ">>, w.current_paragraph))
                             ELSE w.paragraphs,
              current_paragraph |-> (IF flush THEN <<>> ELSE w.current_paragraph)
                                        \o <<BlockText(block)>>,
              last_y |-> <<BottomY(block)>>]

\* body of the loop over sorted_blocks with the signed difference in place of
\* the absolute one: a block that starts above the previous bottom never breaks
WalkStepSigned(w, block) ==
    IF BlockConf(block) < ConfFloor THEN w
    ELSE LET y_coord == TopY(block)
             flush == /\ w.last_y # <<>>
                      /\ y_coord - w.last_y[1] > GapThreshold
                      /\ w.current_paragraph # <<>>
         IN  [paragraphs |-> IF flush
                             THEN Append(w.paragraphs, JoinWith(<<" ">>, w.current_paragraph))
                             ELSE w.paragraphs,
              current_paragraph |-> (IF flush THEN <<>> ELSE w.current_paragraph)
                                        \o <<BlockText(block)>>,
              last_y |-> <<BottomY(block)>>]

\* body of the loop over sorted_blocks; last_y is <<>> for None
WalkStep(w, block) ==
    IF BlockConf(block) < ConfFloor THEN w
    ELSE LET y_coord == TopY(block)
             flush == /\ w.last_y # <<>>
                      /\ Abs(y_coord - w.last_y[1]) > GapThreshold
                      /\ w.current_paragraph # <<>>
         IN  [paragraphs |-> IF flush
                             THEN Append(w.paragraphs, JoinWith(<<" ">>, w.current_paragraph))
                             ELSE w.paragraphs,
              current_paragraph |-> (IF flush THEN <<>> ELSE w.current_paragraph)
                                        \o <<BlockText(block)>>,
              last_y |-> <<BottomY(block)>>]

RECURSIVE Walk(_, _)
Walk(w, blocks) == IF blocks = <<>> THEN w ELSE Walk(WalkStep(w, blocks[1]), Tail(blocks))

\* the paragraphs list after "Add the last paragraph"
GroupParagraphs(blocks) ==
    LET w == Walk(WalkInit, sorted_blocks(blocks))
    IN  IF w.current_paragraph # <<>>
        THEN Append(w.paragraphs, JoinWith(<<" ">>, w.current_paragraph))
        ELSE w.paragraphs

RECURSIVE str(_)
\* str(k) for a natural number k: its decimal digits
str(k) ==
    LET digits == <<"0", "1", "2", "3", "4", "5", "6", "7", "8", "9">>
    IN  IF k < 10 THEN <<digits[k + 1]>> ELSE str(k \div 10) \o <<digits[(k % 10) + 1]>>

\* f"[OCR could not extract text from page {page_num+1}]", page_num 0-based
Sentinel(page_num) ==
    << "[", "O", "C", "R", " ", "c", "o", "u", "l", "d", " ", "n", "o", "t", " ",
       "e", "x", "t", "r", "a", "c", "t", " ", "t", "e", "x", "t", " ",
       "f", "r", "o", "m", " ", "p", "a", "g", "e", " " >>
        \o str(page_num + 1) \o <<"]">>

\* the paragraphs one page adds to the document: result0 is result[0] (<<>> when
\* the engine returned nothing), page_num is 0-based
PageParagraphs(result0, page_num) ==
    IF result0 # <<>> THEN GroupParagraphs(result0) ELSE <<Sentinel(page_num)>>

(***************************************************************************)
(* Documents: a body is a sequence of paragraphs and page breaks            *)
(***************************************************************************)
\* doc.add_paragraph(text)
Para(text) == [kind |-> "p", text |-> text]

\* doc.add_page_break(): a paragraph holding only a page-break run
PageBreak == [kind |-> "br", text |-> <<>>]

\* paragraph.text, as the document reader gives it back
ParagraphText(el) == IF el.kind = "br" THEN <<>> ELSE el.text

RECURSIVE ParagraphTexts(_)
ParagraphTexts(body) ==
    IF body = <<>> THEN <<>> ELSE <<ParagraphText(body[1])>> \o ParagraphTexts(Tail(body))

\* " ".join([paragraph.text for paragraph in doc.paragraphs])
total_text(body) == JoinWith(<<" ">>, ParagraphTexts(body))

(***************************************************************************)
(* Direct extraction of one page                                            *)
(***************************************************************************)
\* the poor-result test with "and" in place of "or": only a text that is both
\* blank and short counts as poor
PoorAnd(text) == Strip(text) = <<>> /\ Len(text) < MinTextLen

\* not text.strip() or len(text) < 50
Poor(text) == Strip(text) = <<>> \/ Len(text) < MinTextLen

RECURSIVE BlockTexts(_)
\* [b[4] for b in blocks if len(b) > 4]
BlockTexts(blocks) ==
    IF blocks = <<>> THEN <<>>
    ELSE (IF Len(blocks[1]) > 4 THEN <<blocks[1][5]>> ELSE <<>>) \o BlockTexts(Tail(blocks))

RECURSIVE SpanTexts(_)
\* span["text"] for span in line["spans"] if "text" in span
SpanTexts(spans) ==
    IF spans = <<>> THEN <<>>
    ELSE (IF "text" \in DOMAIN spans[1] THEN <<spans[1].text>> ELSE <<>>)
             \o SpanTexts(Tail(spans))

RECURSIVE LineParts(_)
LineParts(lines) ==
    IF lines = <<>> THEN <<>>
    ELSE LET line == lines[1]
             line_text == IF "spans" \in DOMAIN line
                          THEN JoinWith(<<" ">>, SpanTexts(line.spans)) ELSE <<>>
         IN  (IF "spans" \in DOMAIN line /\ Strip(line_text) # <<>>
              THEN <<line_text>> ELSE <<>>) \o LineParts(Tail(lines))

RECURSIVE TextParts(_)
TextParts(blocks) ==
    IF blocks = <<>> THEN <<>>
    ELSE (IF "lines" \in DOMAIN blocks[1] THEN LineParts(blocks[1].lines) ELSE <<>>)
             \o TextParts(Tail(blocks))

\* text after page.get_text("text")
TextAfterPlain(page) == page.text

\* text after the blocks-mode attempt
TextAfterBlocks(page) ==
    LET text == TextAfterPlain(page)
    IN  IF Poor(text) /\ page.blocks # <<>>
        THEN JoinWith(<<"\n", "\n">>, BlockTexts(page.blocks))
        ELSE text

\* text after the dict-mode attempt: the text the page contributes
ExtractPageText(page) ==
    LET text == TextAfterBlocks(page)
    IN  IF Poor(text) /\ DOMAIN page.dict # {} /\ "blocks" \in DOMAIN page.dict
        THEN JoinWith(<<"\n">>, TextParts(page.dict.blocks))
        ELSE text

RECURSIVE DirectBody(_)
\* the page loop of convert_pdf_to_docx: a paragraph and a page break per page
DirectBody(pages) ==
    IF pages = <<>> THEN <<>>
    ELSE <<Para(ExtractPageText(pages[1])), PageBreak>> \o DirectBody(Tail(pages))

(***************************************************************************)
(* OCR document                                                             *)
(***************************************************************************)
RECURSIVE Paras(_)
Paras(texts) == IF texts = <<>> THEN <<>> ELSE <<Para(texts[1])>> \o Paras(Tail(texts))

RECURSIVE OcrBodyFrom(_, _)
\* the page loop of convert_pdf_to_docx_with_ocr from 0-based page page_num on
OcrBodyFrom(pages, page_num) ==
    IF page_num >= Len(pages) THEN <<>>
    ELSE Paras(PageParagraphs(pages[page_num + 1].ocr, page_num))
             \o (IF page_num < Len(pages) - 1 THEN <<PageBreak>> ELSE <<>>)
             \o OcrBodyFrom(pages, page_num + 1)

OcrBody(pages) == OcrBodyFrom(pages, 0)

\* str(e) of the fault the OCR pass raised
ErrText == <<"e", "r", "r">>

\* f"Error processing PDF with OCR: {str(e)}"
ErrorBody ==
    << Para(<< "E", "r", "r", "o", "r", " ", "p", "r", "o", "c", "e", "s", "s", "i", "n", "g",
               " ", "P", "D", "F", " ", "w", "i", "t", "h", " ", "O", "C", "R", ":", " " >>
            \o ErrText) >>

(***************************************************************************)
(* Input documents                                                          *)
(***************************************************************************)
\* a text block as get_text("blocks") returns it: (x0, y0, x1, y1, text, no, type)
TextBlock(t) == <<0, 0, 1, 1, t, 0, 0>>

\* a text block of get_text("dict") with one line made of the given spans
DictBlock(span_texts) ==
    [type |-> 0,
     lines |-> << [spans |-> [i \in 1..Len(span_texts) |-> [text |-> span_texts[i]]]] >>]

\* an image block of get_text("dict"): it has no "lines"
ImageBlock == [type |-> 1]

\* clean embedded text: the plain strategy is enough
CleanPage ==
    [text |-> Rep("a", MinTextLen) \o <<"\n">>,
     blocks |-> <<TextBlock(Rep("a", MinTextLen) \o <<"\n">>)>>,
     dict |-> [blocks |-> <<DictBlock(<<Rep("a", MinTextLen)>>)>>],
     ocr |-> <<Block(10, 14, <<"a">>, 90)>>]

\* a scanned page: no text layer, an image only; OCR sees two lines far apart
ScannedPage ==
    [text |-> <<>>,
     blocks |-> <<>>,
     dict |-> [blocks |-> <<ImageBlock>>],
     ocr |-> <<Block(60, 64, <<"b">>, 90), Block(10, 14, <<"a">>, 60)>>]

\* long text that is almost all blanks; OCR returns only low-confidence noise
SparsePage ==
    [text |-> <<"a">> \o Rep(" ", MinTextLen),
     blocks |-> <<TextBlock(<<"a">> \o Rep(" ", MinTextLen))>>,
     dict |-> [blocks |-> <<DictBlock(<<<<"a">>>>)>>],
     ocr |-> <<Block(10, 14, <<"a">>, 50)>>]

\* a short page: all three strategies give short text; OCR returns nothing
ShortPage ==
    [text |-> <<"a", "b", "\n">>,
     blocks |-> <<TextBlock(<<"a", "b", "\n">>)>>,
     dict |-> [blocks |-> <<DictBlock(<< <<"a">>, <<"b">> >>)>>],
     ocr |-> <<>>]

\* a short page padded with blanks: its own ratio is 1/4
PaddedPage ==
    [text |-> <<>>,
     blocks |-> <<TextBlock(<<" ">>)>>,
     dict |-> [blocks |-> <<DictBlock(<< <<"a", " ", " ", " ">> >>)>>],
     ocr |-> <<Block(10, 14, <<"a">>, 90), Block(15, 19, <<"b">>, 90)>>]

PageKinds == {CleanPage, ScannedPage, SparsePage, ShortPage, PaddedPage}

\* the documents a single-file run is given
Pdfs == UNION {[1..n -> PageKinds] : n \in 1..MaxPages}

DotPdf == <<".", "p", "d", "f">>

DotDocx == <<".", "d", "o", "c", "x">>

\* str.endswith
endswith(s, suffix) ==
    /\ Len(s) >= Len(suffix)
    /\ SubSeq(s, Len(s) - Len(suffix) + 1, Len(s)) = suffix

\* os.path.splitext(filename)[0] for a name without separators: the name is
\* cut at its last dot, unless nothing but dots precedes that dot
splitext_root(filename) ==
    LET dots == {i \in 1..Len(filename) : filename[i] = "."}
        dotIndex == IF dots = {} THEN 0 ELSE CHOOSE i \in dots : \A j \in dots : j <= i
    IN  IF dotIndex > 0 /\ \E k \in 1..(dotIndex - 1) : filename[k] # "."
        THEN SubSeq(filename, 1, dotIndex - 1)
        ELSE filename

\* os.path.join(folder, name): an absolute name replaces the folder, no
\* separator is added after an empty folder or one that ends with "/"
os_path_join(folder, name) ==
    IF name # <<>> /\ name[1] = "/" THEN name
    ELSE IF folder = <<>> \/ folder[Len(folder)] = "/" THEN folder \o name
    ELSE folder \o <<"/">> \o name

\* docx_path as process_file computes it when output_filename is None
docx_path(output_folder, filename) ==
    os_path_join(output_folder, splitext_root(filename) \o DotDocx)

DotTxt == <<".", "t", "x", "t">>

\* the name of directory entry d with the given extension: "1.pdf", "2.txt"
EntryName(d, ext) == str(d) \o ext

\* a hidden name made of d extensions: ".pdf", ".pdf.pdf"
HiddenName(d) == JoinWith(<<>>, [i \in 1..d |-> DotPdf])

\* filename.endswith('.pdf')
EndsWithPdf(name) == endswith(name, DotPdf)

\* the output folder of a batch run, the output directory of a single-file run
OutputFolder == <<"o">>

\* os.path.basename(output_file) of a single-file run
OutputFilename == <<"1", ".", "d", "o", "c", "x">>

\* the docx_path process_file computes for entry d
DocxPath(d) ==
    IF mode = "single" THEN os_path_join(OutputFolder, OutputFilename)
    ELSE docx_path(OutputFolder, entries[d].name)

\* the file an earlier run may have left at a docx_path (the output folder is
\* empty before the run, or holds such a file at every docx_path): one
\* paragraph and a page break, of exactly the default threshold size
ExistingFile ==
    [body |-> <<[kind |-> "p", text |-> <<"o", "l", "d">>], [kind |-> "br", text |-> <<>>]>>,
     size |-> DefaultSizeKB * 1024]

Docs == 1..NumDocs

\* what the run of one entry did: the strict scoring ("none", "pass", "fail",
\* "fault"), the OCR passes and the outcome of the last one, who wrote the
\* artifact last ("none", "direct", "ocr", "error"), what the gate did ("none",
\* "kept", "reprocessed", "raised"), and the messages logged about it
HistInit ==
    [scored |-> "none", ocr_runs |-> 0, ocr_last |-> "none", writer |-> "none",
     audit |-> "none", log |-> {}]

PipeInit(m, E) ==
    /\ mode = m
    /\ entries \in E
    /\ size_threshold = DefaultSizeKB * 1024
    /\ max_workers \in (IF m = "batch" THEN {1, DefaultWorkers} ELSE {1})
    /\ pc = [d \in DOMAIN entries |-> "idle"]
    /\ mem = [d \in DOMAIN entries |-> <<>>]
    /\ \E before \in {<<>>, <<ExistingFile>>} :
          fs = [path \in {DocxPath(d) : d \in DOMAIN entries} |-> before]
    /\ collected = {}
    /\ processed_files = <<>>
    /\ mainpc = IF m = "batch" THEN "listdir" ELSE "main"
    /\ loop_i = 1
    /\ hist = [d \in DOMAIN entries |-> HistInit]
    /\ faults = 0
    /\ arg = <<>>
    /\ ret = <<>>

\* entry d of the listing: a PDF with an ordinary name, a PDF of the other
\* kind with a hidden name, or a file that is no PDF
BatchEntry(d) ==
    {[name |-> EntryName(d, DotPdf), exists |-> TRUE,
      pdf |-> IF d % 2 = 1 THEN <<PaddedPage>> ELSE <<CleanPage>>],
     [name |-> HiddenName(d), exists |-> TRUE,
      pdf |-> IF d % 2 = 1 THEN <<CleanPage>> ELSE <<PaddedPage>>],
     [name |-> EntryName(d, DotTxt), exists |-> TRUE, pdf |-> <<>>]}

\* the input file of a single-file run: a PDF, a file that is no PDF, or a
\* path at which no file exists
SingleEntry ==
    {[name |-> EntryName(1, DotPdf), exists |-> TRUE, pdf |-> p] : p \in Pdfs}
        \cup {[name |-> EntryName(1, DotTxt), exists |-> TRUE, pdf |-> <<>>],
              [name |-> EntryName(1, DotPdf), exists |-> FALSE, pdf |-> <<>>]}

BatchEntries == {e \in [Docs -> UNION {BatchEntry(d) : d \in Docs}] :
                    \A d \in Docs : e[d] \in BatchEntry(d)}

SingleEntries == [{1} -> SingleEntry]

Init == PipeInit("batch", BatchEntries) \/ PipeInit("single", SingleEntries)

(***************************************************************************)
(* convert_pdf_to_docx_with_ocr                                             *)
(***************************************************************************)
\* What one OCR pass can do:
\*   "ok"        the try block ran to the end: doc.save wrote the OCR document
\*   "error_doc" the try block raised: the handler saved the error document
\*   "failed"    the try block raised and error_doc.save raised as well: the
\*               exception leaves the function, the artifact is untouched
\*   "unlogged"  Document() raised before the try block: the exception leaves
\*               the function, nothing is logged, the artifact is untouched
OcrOutcomes == {"ok", "error_doc", "failed", "unlogged"}

\* the exception of the pass leaves convert_pdf_to_docx_with_ocr
Escapes(outcome) == outcome \in {"failed", "unlogged"}

\* an outcome other than "ok" is a fault raised by the environment
Cost(outcome) == IF outcome = "ok" THEN 0 ELSE 1

\* the environment may still raise the fault behind this outcome
MayHappen(outcome) == faults + Cost(outcome) <= MaxFaults

\* the sizes os.path.getsize may report for a saved artifact: one byte below
\* the default threshold, and the threshold itself
Sizes == {DefaultSizeKB * 1024 - 1, DefaultSizeKB * 1024}

Artifact(body, size) == [body |-> body, size |-> size]

\* the artifact after an OCR pass over pdf with the given outcome
OcrWrite(old, pdf, outcome, size) ==
    CASE outcome = "ok" -> <<Artifact(OcrBody(pdf), size)>>
      [] outcome = "error_doc" -> <<Artifact(ErrorBody, size)>>
      [] OTHER -> old

HistOcr(h, outcome) ==
    [h EXCEPT !.ocr_runs = @ + 1,
              !.ocr_last = IF Escapes(outcome) THEN "failed" ELSE outcome,
              !.writer = CASE outcome = "ok" -> "ocr" [] outcome = "error_doc" -> "error"
                           [] OTHER -> @,
              !.log = @ \cup (IF outcome \in {"error_doc", "failed"}
                              THEN {"Error processing PDF with OCR"} ELSE {})]

(***************************************************************************)
(* convert_pdf_to_docx, run by process_file as the task of entry d          *)
(***************************************************************************)
Running(d) == pc[d] \in {"start", "save", "score", "ocr_body", "ocr_handler"}

Finished(d) == pc[d] \in {"returned", "raised"}

\* a pool worker takes a queued task
StartTask(d) ==
    /\ mode = "batch"
    /\ pc[d] = "queued"
    /\ Cardinality({e \in DOMAIN pc : Running(e)}) < max_workers
    /\ pc' = [pc EXCEPT ![d] = "start"]
    /\ UNCHANGED <<arg, ret, mode, size_threshold, max_workers, entries, mem, fs, collected,
                   processed_files, mainpc, loop_i, hist, faults>>

\* fitz.open and the page loop: the document is built in memory,
\* or fitz raises FileDataError, or anything else raises
DirectExtract(d) ==
    /\ pc[d] = "start"
    /\ \E outcome \in {"ok", "FileDataError", "Exception"} :
          /\ MayHappen(outcome)
          /\ faults' = faults + Cost(outcome)
          /\ CASE outcome = "ok" ->
                     /\ mem' = [mem EXCEPT ![d] = DirectBody(entries[d].pdf)]
                     /\ pc' = [pc EXCEPT ![d] = "save"]
                     /\ hist' = hist
               [] outcome = "FileDataError" ->
                     /\ pc' = [pc EXCEPT ![d] = "ocr_handler"]
                     /\ hist' = [hist EXCEPT ![d].log = @ \cup {"MuPDF error, switching to OCR"}]
                     /\ mem' = mem
               [] OTHER ->
                     /\ pc' = [pc EXCEPT ![d] = "returned"]
                     /\ hist' = [hist EXCEPT ![d].log = @ \cup {"Error processing PDF"}]
                     /\ mem' = mem
    /\ UNCHANGED <<arg, ret, mode, size_threshold, max_workers, entries, fs, collected,
                   processed_files, mainpc, loop_i>>

\* doc.save(docx_path)
DirectSave(d) ==
    /\ pc[d] = "save"
    /\ \/ \E size \in Sizes :
             /\ fs' = [fs EXCEPT ![DocxPath(d)] = <<Artifact(mem[d], size)>>]
             /\ pc' = [pc EXCEPT ![d] = "score"]
             /\ hist' = [hist EXCEPT ![d].writer = "direct"]
             /\ faults' = faults
       \/ /\ MayHappen("Exception")
          /\ faults' = faults + 1
          /\ pc' = [pc EXCEPT ![d] = "returned"]
          /\ hist' = [hist EXCEPT ![d].log = @ \cup {"Error processing PDF"}]
          /\ fs' = fs
    /\ UNCHANGED <<arg, ret, mode, size_threshold, max_workers, entries, mem, collected,
                   processed_files, mainpc, loop_i>>

\* re-open the artifact and score its text at the strict ratio
StrictScore(d) ==
    /\ pc[d] = "score"
    /\ \/ /\ is_valid_content(total_text(fs[DocxPath(d)][1].body), StrictRatio)
          /\ pc' = [pc EXCEPT ![d] = "returned"]
          /\ hist' = [hist EXCEPT ![d].scored = "pass"]
          /\ faults' = faults
       \/ /\ ~is_valid_content(total_text(fs[DocxPath(d)][1].body), StrictRatio)
          /\ pc' = [pc EXCEPT ![d] = "ocr_body"]
          /\ hist' = [hist EXCEPT ![d].scored = "fail",
                                  ![d].log = @ \cup {"Poor overall text extraction, switching to OCR"}]
          /\ faults' = faults
       \/ /\ MayHappen("Exception")
          /\ faults' = faults + 1
          /\ pc' = [pc EXCEPT ![d] = "returned"]
          /\ hist' = [hist EXCEPT ![d].scored = "fault",
                                  ![d].log = @ \cup {"Error processing PDF"}]
    /\ UNCHANGED <<arg, ret, mode, size_threshold, max_workers, entries, mem, fs, collected,
                   processed_files, mainpc, loop_i>>

\* AfterOcr with a retry: an OCR pass that ended in the error document sends
\* the pipeline through the OCR path once more
AfterOcrRetry(from, outcome) ==
    IF outcome = "error_doc" THEN "ocr_body"
    ELSE IF Escapes(outcome) /\ from = "ocr_handler" THEN "raised" ELSE "returned"

\* where convert_pdf_to_docx goes after the OCR pass it called: an exception
\* out of the call in the try body is caught by "except Exception"; out of the
\* call in the FileDataError handler it leaves convert_pdf_to_docx
AfterOcr(from, outcome) ==
    IF Escapes(outcome) /\ from = "ocr_handler" THEN "raised" ELSE "returned"

\* the OCR pass of the pipeline (line 148 or line 153)
PipelineOcr(d) ==
    /\ pc[d] \in {"ocr_body", "ocr_handler"}
    /\ \E outcome \in OcrOutcomes, size \in Sizes :
          /\ MayHappen(outcome)
          /\ faults' = faults + Cost(outcome)
          /\ fs' = [fs EXCEPT ![DocxPath(d)] = OcrWrite(fs[DocxPath(d)], entries[d].pdf, outcome, size)]
          /\ pc' = [pc EXCEPT ![d] = AfterOcr(pc[d], outcome)]
          /\ hist' = [hist EXCEPT ![d] =
                        [HistOcr(@, outcome) EXCEPT !.log =
                            @ \cup (IF Escapes(outcome) /\ pc[d] = "ocr_body"
                                    THEN {"Error processing PDF"} ELSE {})]]
    /\ UNCHANGED <<arg, ret, mode, size_threshold, max_workers, entries, mem, collected,
                   processed_files, mainpc, loop_i>>

(***************************************************************************)
(* process_files                                                            *)
(***************************************************************************)
\* the loop over os.listdir: one task per entry whose name ends with '.pdf'
Submit ==
    /\ mainpc = "listdir"
    /\ loop_i <= NumDocs
    /\ pc' = [pc EXCEPT ![loop_i] =
                 IF EndsWithPdf(entries[loop_i].name) THEN "queued" ELSE "skipped"]
    /\ loop_i' = loop_i + 1
    /\ UNCHANGED <<arg, ret, mode, size_threshold, max_workers, entries, mem, fs, collected,
                   processed_files, mainpc, hist, faults>>

EndSubmit ==
    /\ mainpc = "listdir"
    /\ loop_i > NumDocs
    /\ mainpc' = "collect"
    /\ UNCHANGED <<arg, ret, mode, size_threshold, max_workers, entries, pc, mem, fs,
                   collected, processed_files, loop_i, hist, faults>>

\* what process_file returns to its caller once convert_pdf_to_docx has returned
process_file_result(d) == <<d>>

\* one round of the as_completed loop: future.result() gives the pair, which is
\* appended, or re-raises the task's exception, which is logged
Collect(d) ==
    /\ mainpc = "collect"
    /\ Finished(d)
    /\ d \notin collected
    /\ collected' = collected \cup {d}
    /\ IF pc[d] = "returned"
       THEN /\ processed_files' = processed_files \o process_file_result(d)
            /\ hist' = hist
       ELSE /\ processed_files' = processed_files
            /\ hist' = [hist EXCEPT ![d].log = @ \cup {"Error processing file"}]
    /\ UNCHANGED <<arg, ret, mode, size_threshold, max_workers, entries, pc, mem, fs,
                   mainpc, loop_i, faults>>

\* EndCollect without the barrier: process_files returns as soon as the first
\* result has been collected
EndCollectEarly ==
    /\ mainpc = "collect"
    /\ collected # {}
    /\ mainpc' = "audit"
    /\ loop_i' = 1
    /\ UNCHANGED <<arg, ret, mode, size_threshold, max_workers, entries, pc, mem, fs,
                   collected, processed_files, hist, faults>>

\* as_completed is exhausted and the executor has shut down: process_files
\* returns and main calls check_and_fix_files
EndCollect ==
    /\ mainpc = "collect"
    /\ \A d \in Docs : pc[d] = "skipped" \/ d \in collected
    /\ mainpc' = "audit"
    /\ loop_i' = 1
    /\ UNCHANGED <<arg, ret, mode, size_threshold, max_workers, entries, pc, mem, fs,
                   collected, processed_files, hist, faults>>

(***************************************************************************)
(* The quality gate on one pair                                             *)
(***************************************************************************)
\* need_ocr with the size test one off: an artifact of exactly the threshold
\* size is flagged
need_ocr_le(art, threshold) ==
    IF art.size <= threshold THEN TRUE
    ELSE ~is_valid_content(total_text(art.body), LooseRatio)

\* need_ocr as the size check and the content check set it, for an artifact
\* that exists and can be read
need_ocr(art, threshold) ==
    IF art.size < threshold THEN TRUE
    ELSE ~is_valid_content(total_text(art.body), LooseRatio)

\* The gate on the pair of entry d.  ok is the main thread's position when the
\* gate gets through, and "crashed" its position when an exception leaves it:
\* os.path.getsize on a missing artifact, a fault re-reading the artifact, or an
\* OCR pass that could not even save its error document.
Gate(d, ok) ==
    \/ /\ fs[DocxPath(d)] = <<>>
       /\ mainpc' = "crashed"
       /\ hist' = [hist EXCEPT ![d].audit = "raised"]
       /\ fs' = fs
       /\ faults' = faults
    \/ /\ fs[DocxPath(d)] # <<>>
       /\ fs[DocxPath(d)][1].size >= size_threshold
       /\ MayHappen("Exception")
       /\ faults' = faults + 1
       /\ mainpc' = "crashed"
       /\ hist' = [hist EXCEPT ![d].audit = "raised"]
       /\ fs' = fs
    \/ /\ fs[DocxPath(d)] # <<>>
       /\ ~need_ocr(fs[DocxPath(d)][1], size_threshold)
       /\ mainpc' = ok
       /\ hist' = [hist EXCEPT ![d].audit = "kept"]
       /\ fs' = fs
       /\ faults' = faults
    \/ /\ fs[DocxPath(d)] # <<>>
       /\ need_ocr(fs[DocxPath(d)][1], size_threshold)
       /\ \E outcome \in OcrOutcomes, size \in Sizes :
             /\ MayHappen(outcome)
             /\ faults' = faults + Cost(outcome)
             /\ fs' = [fs EXCEPT ![DocxPath(d)] = OcrWrite(fs[DocxPath(d)], entries[d].pdf, outcome, size)]
             /\ mainpc' = IF Escapes(outcome) THEN "crashed" ELSE ok
             /\ hist' = [hist EXCEPT ![d] =
                           [HistOcr(@, outcome) EXCEPT !.audit =
                               IF Escapes(outcome) THEN "raised" ELSE "reprocessed"]]

\* one round of the audit that stays on the pair while its artifact is still
\* flagged after the OCR pass
AuditPairRetry ==
    /\ mainpc = "audit"
    /\ loop_i <= Len(processed_files)
    /\ Gate(processed_files[loop_i], "audit")
    /\ loop_i' = IF /\ fs'[DocxPath(processed_files[loop_i])] # <<>>
                    /\ need_ocr(fs'[DocxPath(processed_files[loop_i])][1], size_threshold)
                 THEN loop_i ELSE loop_i + 1
    /\ UNCHANGED <<arg, ret, mode, size_threshold, max_workers, entries, pc, mem, collected,
                   processed_files>>

\* one round of the loop of check_and_fix_files
AuditPair ==
    /\ mainpc = "audit"
    /\ loop_i <= Len(processed_files)
    /\ Gate(processed_files[loop_i], "audit")
    /\ loop_i' = loop_i + 1
    /\ UNCHANGED <<arg, ret, mode, size_threshold, max_workers, entries, pc, mem, collected,
                   processed_files>>

EndAudit ==
    /\ mainpc = "audit"
    /\ loop_i > Len(processed_files)
    /\ mainpc' = "done"
    /\ UNCHANGED <<arg, ret, mode, size_threshold, max_workers, entries, pc, mem, fs,
                   collected, processed_files, loop_i, hist, faults>>

(***************************************************************************)
(* process_single_file                                                      *)
(***************************************************************************)
\* main with --input_file and --output_file: it returns without a call when
\* the input file does not exist or its name does not end with '.pdf', else it
\* calls process_single_file
MainSingle ==
    /\ mainpc = "main"
    /\ mode = "single"
    /\ IF ~entries[1].exists
       THEN /\ mainpc' = "done"
            /\ hist' = [hist EXCEPT ![1].log = @ \cup {"Input file does not exist"}]
       ELSE IF ~EndsWithPdf(entries[1].name)
       THEN /\ mainpc' = "done"
            /\ hist' = [hist EXCEPT ![1].log = @ \cup {"Input file is not a PDF"}]
       ELSE /\ mainpc' = "single"
            /\ hist' = hist
    /\ UNCHANGED <<arg, ret, mode, size_threshold, max_workers, entries, pc, mem, fs,
                   collected, processed_files, loop_i, faults>>

\* process_file is called: it returns None for a name that does not end with
\* '.pdf' (process_single_file returns False), else it runs convert_pdf_to_docx
SingleStart ==
    /\ mainpc = "single"
    /\ IF EndsWithPdf(entries[1].name)
       THEN /\ pc' = [pc EXCEPT ![1] = "start"]
            /\ mainpc' = "single_convert"
            /\ ret' = ret
            /\ hist' = hist
       ELSE /\ pc' = [pc EXCEPT ![1] = "skipped"]
            /\ mainpc' = "done"
            /\ ret' = <<FALSE>>
            /\ hist' = [hist EXCEPT ![1].log = @ \cup {"Failed to process file"}]
    /\ UNCHANGED <<arg, mode, size_threshold, max_workers, entries, mem, fs, collected,
                   processed_files, loop_i, faults>>

\* process_file has returned the pair, or its exception leaves process_single_file
SingleConverted ==
    /\ mainpc = "single_convert"
    /\ Finished(1)
    /\ mainpc' = IF pc[1] = "returned" THEN "single_gate" ELSE "crashed"
    /\ UNCHANGED <<arg, ret, mode, size_threshold, max_workers, entries, pc, mem, fs,
                   collected, processed_files, loop_i, hist, faults>>

\* the size check, the content check and the reprocessing; then return True
SingleGate ==
    /\ mainpc = "single_gate"
    /\ Gate(1, "done")
    /\ ret' = IF mainpc' = "done" THEN <<TRUE>> ELSE ret
    /\ UNCHANGED <<arg, mode, size_threshold, max_workers, entries, pc, mem, collected,
                   processed_files, loop_i>>

Next ==
    \/ \E d \in DOMAIN pc : StartTask(d)
    \/ \E d \in DOMAIN pc : DirectExtract(d)
    \/ \E d \in DOMAIN pc : DirectSave(d)
    \/ \E d \in DOMAIN pc : StrictScore(d)
    \/ \E d \in DOMAIN pc : PipelineOcr(d)
    \/ Submit
    \/ EndSubmit
    \/ \E d \in DOMAIN pc : Collect(d)
    \/ EndCollect
    \/ AuditPair
    \/ EndAudit
    \/ MainSingle
    \/ SingleStart
    \/ SingleConverted
    \/ SingleGate

Spec == Init /\ [][Next]_vars

(***************************************************************************)
(* Specifications of the pure functions: the input is drawn in the initial  *)
(* state and one action applies the function                                *)
(***************************************************************************)
FunctionInit ==
    /\ ret = <<>>
    /\ mode = "function"
    /\ size_threshold = 1
    /\ max_workers = 1
    /\ entries = <<>>
    /\ pc = <<>>
    /\ mem = <<>>
    /\ fs = <<>>
    /\ collected = {}
    /\ processed_files = <<>>
    /\ mainpc = "call"
    /\ loop_i = 1
    /\ hist = <<>>
    /\ faults = 0

Alphabet == {"a", " ", "\n", "\r", "U+00A0"}

Strings == UNION {[1..n -> Alphabet] : n \in 0..MaxLen}

Ratios == {<<0, 10>>, <<1, 10>>, <<2, 10>>, <<1, 4>>, <<1, 2>>, <<1, 1>>}

InitValid ==
    /\ arg \in [s : Strings, r : Ratios]
    /\ FunctionInit

CallIsValid ==
    /\ mainpc = "call"
    /\ "s" \in DOMAIN arg
    /\ ret' = <<is_valid_content(arg.s, arg.r)>>
    /\ mainpc' = "called"
    /\ UNCHANGED <<arg, mode, size_threshold, max_workers, entries, pc, mem, fs, collected,
                   processed_files, loop_i, hist, faults>>

NextValid == CallIsValid

SpecValid == InitValid /\ [][NextValid]_vars

\* the detections the OCR engine may return for a page
Detections ==
    {Block(top, top + h, <<t>>, c) :
        top \in {10, 15, 60}, h \in {4, 45}, t \in {"a", "b"}, c \in {50, 60}}

DetectionLists == UNION {[1..n -> Detections] : n \in 0..MaxDets}

\* four one-line detections at top-y 10, 15, 60 and 65, each four units high
FourLines ==
    <<Block(10, 14, <<"a">>, 90), Block(15, 19, <<"b">>, 90),
      Block(60, 64, <<"a">>, 90), Block(65, 69, <<"b">>, 90)>>

InitOcr ==
    /\ arg \in [result0 : DetectionLists \cup {FourLines}, page_num : 0..1]
    /\ FunctionInit

\* the body of the page loop of convert_pdf_to_docx_with_ocr for one page
CallPageParagraphs ==
    /\ mainpc = "call"
    /\ "result0" \in DOMAIN arg
    /\ ret' = <<PageParagraphs(arg.result0, arg.page_num)>>
    /\ mainpc' = "called"
    /\ UNCHANGED <<arg, mode, size_threshold, max_workers, entries, pc, mem, fs, collected,
                   processed_files, loop_i, hist, faults>>

NextOcr == CallPageParagraphs

SpecOcr == InitOcr /\ [][NextOcr]_vars

(***************************************************************************)
(* The three extraction strategies on one page                              *)
(***************************************************************************)
\* the get_text modes the page loop of convert_pdf_to_docx calls, in order
StrategiesRun(page) ==
    <<"text">>
        \o (IF Poor(TextAfterPlain(page)) THEN <<"blocks">> ELSE <<>>)
        \o (IF Poor(TextAfterBlocks(page)) THEN <<"dict">> ELSE <<>>)

\* what get_text("text") may give: nothing, a few characters, blanks only
\* (spaces, or carriage returns and no-break spaces), one character short of the
\* floor, exactly the floor, and a full line
PlainTexts ==
    {<<>>, <<"a", "b", "\n">>, Rep(" ", MinTextLen),
     Rep("\r", MinTextLen) \o Rep("U+00A0", 10), Rep("a", MinTextLen - 1),
     Rep("a", MinTextLen), Rep("a", MinTextLen) \o <<"\n">>}

\* the blocks of get_text("blocks"): text blocks, and a tuple too short to
\* carry text
BlockKinds ==
    {TextBlock(<<"a", "b">>), TextBlock(Rep("b", MinTextLen)),
     TextBlock(Rep(" ", MinTextLen)), <<0, 0, 1, 1>>}

BlockLists == UNION {[1..n -> BlockKinds] : n \in 0..2}

\* the results of get_text("dict")
DictResults ==
    {[blocks |-> bs] :
        bs \in {<<>>, <<ImageBlock>>, <<DictBlock(<<<<"a">>, <<"b">>>>)>>,
                <<DictBlock(<<<<" ">>>>)>>, <<DictBlock(<<Rep("c", MinTextLen)>>)>>,
                <<DictBlock(<<<<"U+00A0">>>>), DictBlock(<<<<"b">>>>)>>,
                <<DictBlock(<<<<"a">>>>), DictBlock(<<Rep("c", MinTextLen)>>)>>}}

ExtractPages == [text : PlainTexts, blocks : BlockLists, dict : DictResults]

InitExtract ==
    /\ arg \in [page : ExtractPages]
    /\ FunctionInit

\* the strategy cascade of the page loop of convert_pdf_to_docx on one page
CallExtractPageText ==
    /\ mainpc = "call"
    /\ "page" \in DOMAIN arg
    /\ ret' = <<[text |-> ExtractPageText(arg.page), calls |-> StrategiesRun(arg.page)]>>
    /\ mainpc' = "called"
    /\ UNCHANGED <<arg, mode, size_threshold, max_workers, entries, pc, mem, fs, collected,
                   processed_files, loop_i, hist, faults>>

NextExtract == CallExtractPageText

SpecExtract == InitExtract /\ [][NextExtract]_vars

(***************************************************************************)
(* Output paths: file names are strings of characters, drawn as runs of the *)
(* pieces "a", "." and "pdf"                                                *)
(***************************************************************************)
NamePieces == {<<"a">>, <<".">>, <<"p", "d", "f">>}

FileNames == {JoinWith(<<>>, u) : u \in UNION {[1..n -> NamePieces] : n \in 1..MaxName}}

\* os.listdir of the input folder: two entries, which a directory keeps distinct
Listings == {l \in [1..2 -> FileNames] : l[1] # l[2]}

\* the output folder as given on the command line: the current directory as
\* the empty path, a plain folder, a folder written with a trailing separator
OutputFolders == {<<>>, <<"o">>, <<"o", "/">>}

InitPaths ==
    /\ arg \in [listing : Listings, output_folder : OutputFolders]
    /\ FunctionInit

\* the loop of process_files over the listing: the docx_path of every entry
\* the filter accepts, <<>> for an entry it skips
CallDocxPaths ==
    /\ mainpc = "call"
    /\ "listing" \in DOMAIN arg
    /\ ret' = <<[i \in 1..2 |->
                   IF endswith(arg.listing[i], DotPdf)
                   THEN <<docx_path(arg.output_folder, arg.listing[i])>>
                   ELSE <<>>]>>
    /\ mainpc' = "called"
    /\ UNCHANGED <<arg, mode, size_threshold, max_workers, entries, pc, mem, fs, collected,
                   processed_files, loop_i, hist, faults>>

NextPaths == CallDocxPaths

SpecPaths == InitPaths /\ [][NextPaths]_vars

(***************************************************************************)
(* Helpers of the properties                                                *)
(***************************************************************************)
IsPdfEntry(d) == EndsWithPdf(entries[d].name)

PipelineRun == mode \in {"batch", "single"}

BreakCount(body) == Cardinality({i \in 1..Len(body) : body[i].kind = "br"})

\* the positions of the page breaks of a body, ascending, as a sequence
RECURSIVE BreakPositionsFrom(_, _)
BreakPositionsFrom(body, i) ==
    IF i > Len(body) THEN <<>>
    ELSE (IF body[i].kind = "br" THEN <<i>> ELSE <<>>) \o BreakPositionsFrom(body, i + 1)

\* the k-th stretch of a body between page breaks (k = 1 is before the first)
Segment(body, k) ==
    LET bp == BreakPositionsFrom(body, 1)
        lo == IF k = 1 THEN 1 ELSE bp[k - 1] + 1
        hi == IF k > Len(bp) THEN Len(body) ELSE bp[k] - 1
    IN  SubSeq(body, lo, hi)

Survives(block) == BlockConf(block) >= ConfFloor

NonWsCount(s) == Cardinality({i \in 1..Len(s) : s[i] \notin Whitespace})

\* how often character c occurs in the paragraphs ps
Occurrences(ps, c) ==
    LET all == JoinWith(<<>>, ps)
    IN  Cardinality({i \in 1..Len(all) : all[i] = c})

ArrivalOrders(n) == {p \in [1..n -> 1..n] : \A i, j \in 1..n : p[i] = p[j] => i = j}

Permuted(list, p) == [i \in 1..Len(list) |-> list[p[i]]]

\* the messages convert_pdf_to_docx logs when its catch-all swallows a fault
ConversionFailed(d) == "Error processing PDF" \in hist[d].log

\* no fault was raised while entry d was converted or audited
OwnRunClean(d) == hist[d].log = {} /\ hist[d].audit # "raised"

\* the pipeline of entry d scored the text assembled by direct extraction,
\* and that text does not pass the strict ratio
StrictFailed(d) ==
    LET t == total_text(DirectBody(entries[d].pdf))
    IN  /\ hist[d].scored \in {"pass", "fail"}
        /\ ~(t # <<>> /\ NonWsCount(t) * 10 > 2 * Len(t))

(***************************************************************************)
(* Properties                                                               *)
(***************************************************************************)
\* C1: once convert_pdf_to_docx has returned for a document, an artifact
\* exists at its docx_path, whatever fault occurred on the way.
C1_ArtifactAlways ==
    PipelineRun => \A d \in DOMAIN pc : pc[d] = "returned" => fs[DocxPath(d)] # <<>>

\* C2: when a batch run has ended, every PDF whose own conversion and audit
\* raised no fault has been converted and audited, whatever happened to the
\* other documents.
C2_SiblingsUnaffected ==
    (mode = "batch" /\ mainpc \in {"done", "crashed"}) =>
        \A d \in DOMAIN pc :
            (IsPdfEntry(d) /\ OwnRunClean(d)) =>
                (pc[d] = "returned" /\ hist[d].audit \in {"kept", "reprocessed"})

\* C3 as stated: when the strict score failed, the artifact of the finished
\* pipeline is the OCR-reconstructed text.
C3_OcrTextAfterStrictFail ==
    PipelineRun => \A d \in DOMAIN pc :
        (StrictFailed(d) /\ Finished(d)) =>
            (fs[DocxPath(d)] # <<>> /\ fs[DocxPath(d)][1].body = OcrBody(entries[d].pdf))

\* C4: an artifact written by the direct path or by the OCR path for an
\* N-page document holds exactly N-1 page breaks, and its k-th stretch between
\* breaks is the content of page k.
C4_PageOrder ==
    PipelineRun => \A d \in DOMAIN pc :
        LET pages == entries[d].pdf
            N == Len(pages)
        IN  /\ (fs[DocxPath(d)] # <<>> /\ hist[d].writer = "direct") =>
                  /\ BreakCount(fs[DocxPath(d)][1].body) = N - 1
                  /\ \A k \in 1..N :
                        Segment(fs[DocxPath(d)][1].body, k) = <<Para(ExtractPageText(pages[k]))>>
            /\ (fs[DocxPath(d)] # <<>> /\ hist[d].writer = "ocr") =>
                  /\ BreakCount(fs[DocxPath(d)][1].body) = N - 1
                  /\ \A k \in 1..N :
                        Segment(fs[DocxPath(d)][1].body, k) = Paras(PageParagraphs(pages[k].ocr, k - 1))

\* C5: a page on which no detection survives the confidence floor contributes
\* exactly the sentinel paragraph, and no page contributes zero paragraphs.
C5_Sentinel ==
    ("result0" \in DOMAIN arg /\ ret # <<>>) =>
        /\ (\A i \in 1..Len(arg.result0) : ~Survives(arg.result0[i])) =>
               ret[1] = <<Sentinel(arg.page_num)>>
        /\ ret[1] # <<>>

\* C6: the paragraphs of a page are the same for every arrival order of the
\* same detections.
C6_ArrivalOrder ==
    ("result0" \in DOMAIN arg /\ ret # <<>>) =>
        \A p \in ArrivalOrders(Len(arg.result0)) :
            PageParagraphs(Permuted(arg.result0, p), arg.page_num) = ret[1]

\* C7: a detection below the confidence floor contributes no text and has no
\* influence on the grouping: the paragraphs are those of the surviving
\* detections alone, and each text occurs as often as survivors carry it.
C7_LowConfidenceExcluded ==
    ("result0" \in DOMAIN arg /\ ret # <<>> /\ arg.result0 # <<>>) =>
        /\ ret[1] = GroupParagraphs(SelectSeq(arg.result0, Survives))
        /\ \A t \in {"a", "b"} :
              Occurrences(ret[1], t) =
                  Cardinality({i \in 1..Len(arg.result0) :
                                  Survives(arg.result0[i]) /\ BlockText(arg.result0[i]) = <<t>>})

\* a low-confidence detection arrived together with surviving ones that were
\* split into two paragraphs
C7_Witness ==
    /\ "result0" \in DOMAIN arg /\ ret # <<>>
    /\ \E i \in 1..Len(arg.result0) : ~Survives(arg.result0[i])
    /\ Len(ret[1]) >= 2

\* C8: the gate leaves an artifact of at least size_threshold bytes whose text
\* passes the loose check as it is, and runs no OCR pass on it.
C8_GateFrame ==
    [][\A d \in DOMAIN pc :
          (/\ mode = "batch" /\ mainpc = "audit" /\ loop_i <= Len(processed_files)
           /\ processed_files[loop_i] = d
           /\ fs[DocxPath(d)] # <<>>
           /\ fs[DocxPath(d)][1].size >= size_threshold
           /\ NonWsCount(total_text(fs[DocxPath(d)][1].body)) * 10 > Len(total_text(fs[DocxPath(d)][1].body)))
          => (fs'[DocxPath(d)] = fs[DocxPath(d)] /\ hist'[d].ocr_runs = hist[d].ocr_runs)]_vars

\* the gate visited a pair and kept its artifact
C8_Witness ==
    /\ mode = "batch"
    /\ \E d \in DOMAIN hist :
          /\ hist[d].audit = "kept"
          /\ fs[DocxPath(d)] # <<>> /\ fs[DocxPath(d)][1].size >= size_threshold

\* C9: is_valid_content(s, r) is true exactly when s is non-empty and the share
\* of non-whitespace characters is strictly greater than r.
C9_ValidityRatio ==
    ("s" \in DOMAIN arg /\ ret # <<>>) =>
        /\ ret[1] <=> (arg.s # <<>> /\ NonWsCount(arg.s) * arg.r[2] > arg.r[1] * Len(arg.s))
        /\ arg.s = <<>> => ~ret[1]
        /\ NonWsCount(arg.s) * arg.r[2] = arg.r[1] * Len(arg.s) => ~ret[1]

\* a non-empty string whose ratio equals r was scored invalid
C9_Witness ==
    /\ "s" \in DOMAIN arg /\ ret # <<>>
    /\ arg.s # <<>> /\ arg.r[1] > 0
    /\ NonWsCount(arg.s) * arg.r[2] = arg.r[1] * Len(arg.s)
    /\ ret[1] = FALSE

\* C10: the list process_files builds holds only documents whose conversion
\* completed without a fault.
C10_OnlySuccessfulPairs ==
    mode = "batch" =>
        \A i \in 1..Len(processed_files) : ~ConversionFailed(processed_files[i])

\* C11: process_single_file always ends by returning a boolean, never by
\* raising, and the boolean is True exactly when the file was a PDF whose
\* conversion completed without a fault; a failed conversion gives False.
C11_SingleFileBoolean ==
    (mode = "single" /\ pc[1] # "idle" /\ mainpc \in {"done", "crashed"}) =>
        /\ mainpc = "done"
        /\ ret \in {<<TRUE>>, <<FALSE>>}
        /\ ret[1] <=> (IsPdfEntry(1) /\ pc[1] = "returned" /\ ~ConversionFailed(1))

\* the open of the source PDF raised FileDataError in the pipeline of entry d
FileDataErrorRaised(d) == "MuPDF error, switching to OCR" \in hist[d].log

\* the text re-read from the artifact of entry d does not pass the strict ratio
ScoredTextFails(d) ==
    LET t == total_text(fs[DocxPath(d)][1].body)
    IN  ~(t # <<>> /\ NonWsCount(t) * 10 > 2 * Len(t))

\* C12: within one call of convert_pdf_to_docx (before any audit of the
\* document) the OCR path is entered exactly when the strict score of the text
\* re-read from the artifact fails or the open raised FileDataError, it is
\* entered at most once, the pipeline has ended once it has run, with no scoring
\* after it, and a passed strict score means OCR is never invoked.
C12_DirectThenOcrOnce ==
    /\ [](PipelineRun =>
            \A d \in DOMAIN pc :
                hist[d].audit = "none" =>
                    /\ hist[d].ocr_runs <= 1
                    /\ hist[d].ocr_runs = 1 => Finished(d)
                    /\ pc[d] = "ocr_body" => hist[d].scored = "fail" /\ ~FileDataErrorRaised(d)
                    /\ pc[d] = "ocr_handler" =>
                          FileDataErrorRaised(d) /\ hist[d].scored = "none"
                    /\ Finished(d) =>
                          (hist[d].ocr_runs = 1 <=>
                              (hist[d].scored = "fail" \/ FileDataErrorRaised(d)))
                    /\ hist[d].scored = "pass" =>
                          hist[d].ocr_runs = 0 /\ hist[d].writer = "direct"
                    /\ FileDataErrorRaised(d) => hist[d].scored = "none")
    /\ [][\A d \in DOMAIN pc :
            (PipelineRun /\ pc[d] = "score" /\ pc'[d] # "score") =>
                /\ hist'[d].scored \in {"pass", "fail", "fault"}
                /\ hist'[d].scored = "fail" <=> pc'[d] = "ocr_body"
                /\ hist'[d].scored = "fail" => ScoredTextFails(d)
                /\ hist'[d].scored = "pass" => ~ScoredTextFails(d)]_vars

\* a pipeline that met FileDataError ran OCR once and ended with the OCR document
C12_Witness ==
    \E d \in DOMAIN pc :
        /\ PipelineRun /\ hist[d].audit = "none"
        /\ FileDataErrorRaised(d)
        /\ pc[d] = "returned"
        /\ hist[d].ocr_runs = 1 /\ hist[d].ocr_last = "ok"
        /\ fs[DocxPath(d)] # <<>> /\ fs[DocxPath(d)][1].body = OcrBody(entries[d].pdf)

\* the surviving detections of a page in the order the walk meets them
SurvivorsInOrder(result0) == sorted_blocks(SelectSeq(result0, Survives))

\* the paragraphs obtained by cutting the survivors surv before each index in
\* breaks and joining the texts of every piece with one space
ParagraphsAt(surv, breaks) ==
    LET n == Len(surv)
        starts == {1} \cup breaks
        StartOf(k) == CHOOSE i \in starts : Cardinality({j \in starts : j < i}) = k - 1
        EndOf(i) == IF \E j \in starts : j > i
                    THEN (CHOOSE j \in starts : j > i /\ \A m \in starts : m > i => j <= m) - 1
                    ELSE n
        Piece(i) == [j \in 1..(EndOf(i) - i + 1) |-> BlockText(surv[i + j - 1])]
    IN  IF n = 0 THEN <<>>
        ELSE [k \in 1..Cardinality(starts) |-> JoinWith(<<" ">>, Piece(StartOf(k)))]

\* C13 as stated: a paragraph boundary is placed before a surviving detection
\* exactly when a previous detection was accepted and this detection's top-y
\* lies more than 20 below the previous accepted detection's bottom-y.
C13_BreakOnGap ==
    ("result0" \in DOMAIN arg /\ ret # <<>> /\ arg.result0 # <<>>) =>
        LET surv == SurvivorsInOrder(arg.result0)
        IN  ret[1] = ParagraphsAt(surv,
                        {i \in 2..Len(surv) :
                            TopY(surv[i]) - BottomY(surv[i - 1]) > GapThreshold})

\* C13, amended: a paragraph boundary is placed before a surviving detection
\* exactly when a previous detection was accepted and the absolute difference
\* between this detection's top-y and the previous accepted detection's
\* bottom-y exceeds 20, whichever of the two is larger.
C13_BreakOnAbsoluteGap ==
    ("result0" \in DOMAIN arg /\ ret # <<>> /\ arg.result0 # <<>>) =>
        LET surv == SurvivorsInOrder(arg.result0)
        IN  ret[1] = ParagraphsAt(surv,
                        {i \in 2..Len(surv) :
                            Abs(TopY(surv[i]) - BottomY(surv[i - 1])) > GapThreshold})

\* the four one-line detections at top-y 10, 15, 60, 65 became two paragraphs
\* of two lines each
C13_Witness ==
    /\ "result0" \in DOMAIN arg /\ ret # <<>>
    /\ arg.result0 = FourLines
    /\ ret[1] = << <<"a", " ", "b">>, <<"a", " ", "b">> >>

\* C14: no step of check_and_fix_files happens before every worker task that
\* process_files submitted has finished: while the audit runs, and once any
\* pair has been audited, no task is queued or running.
C14_AuditAfterAllWorkers ==
    mode = "batch" =>
        ((mainpc \in {"audit", "done", "crashed"} \/ \E d \in Docs : hist[d].audit # "none")
            => \A d \in Docs : pc[d] = "skipped" \/ Finished(d))

\* the audit has visited a pair after two worker tasks ran to their end
C14_Witness ==
    /\ mode = "batch"
    /\ mainpc = "audit" /\ loop_i > 1
    /\ \E d \in Docs : hist[d].audit # "none"
    /\ Cardinality({d \in Docs : Finished(d)}) >= 2

\* C15: any two distinct directory entries that the '.pdf' filter accepts are
\* given distinct output paths by process_file.
C15_DistinctOutputPaths ==
    ("listing" \in DOMAIN arg /\ ret # <<>>) =>
        \A i, j \in 1..2 :
            (/\ i # j
             /\ arg.listing[i] # arg.listing[j]
             /\ endswith(arg.listing[i], DotPdf)
             /\ endswith(arg.listing[j], DotPdf))
            => ret[1][i] # ret[1][j]

\* check_and_fix_files is about to examine the pair of entry d
GateAt(d) ==
    /\ mode = "batch" /\ mainpc = "audit"
    /\ loop_i <= Len(processed_files) /\ processed_files[loop_i] = d

\* the artifact is below the size threshold, or else its text fails the loose
\* check: at most one character in ten is not whitespace
Flagged(art) ==
    \/ art.size < size_threshold
    \/ LET t == total_text(art.body)
       IN  ~(t # <<>> /\ NonWsCount(t) * 10 > Len(t))

\* C16 as stated: for every pair the gate flags, the OCR path is run against
\* the source PDF and the artifact afterwards holds only what that OCR pass
\* wrote (its OCR document, or its error document), nothing of the artifact
\* that was there before.
C16_FlaggedRewritten ==
    [][\A d \in DOMAIN pc :
          (GateAt(d) /\ fs[DocxPath(d)] # <<>> /\ Flagged(fs[DocxPath(d)][1]))
          => /\ hist'[d].ocr_runs = hist[d].ocr_runs + 1
             /\ hist'[d].ocr_last \in {"ok", "error_doc"}
             /\ fs'[DocxPath(d)] # <<>>
             /\ fs'[DocxPath(d)][1].body = IF hist'[d].ocr_last = "ok"
                                 THEN OcrBody(entries[d].pdf) ELSE ErrorBody]_vars

\* C17: the audit visits no result pair twice (and every pair once when it runs
\* to its end), in list order, and runs at most one OCR pass on a pair, even
\* when that pass leaves an artifact below the size threshold; so a document
\* undergoes at most two OCR passes, one in its pipeline and one in the audit,
\* and every step of the audit moves to the next pair or ends the audit.
C17_BoundedReprocessing ==
    /\ [](mode = "batch" =>
            /\ \A d \in Docs :
                  /\ hist[d].ocr_runs <= 2
                  /\ hist[d].audit = "none" => hist[d].ocr_runs <= 1
            /\ \A i, j \in 1..Len(processed_files) :
                  processed_files[i] = processed_files[j] => i = j
            /\ mainpc = "audit" =>
                  /\ loop_i \in 1..(Len(processed_files) + 1)
                  /\ \A i \in 1..Len(processed_files) :
                        hist[processed_files[i]].audit # "none" <=> i < loop_i
            /\ mainpc = "done" =>
                  \A i \in 1..Len(processed_files) :
                      hist[processed_files[i]].audit \in {"kept", "reprocessed"})
    /\ [][(mode = "batch" /\ mainpc = "audit") =>
            /\ \/ mainpc' = "audit" /\ loop_i' = loop_i + 1
               \/ mainpc' \in {"done", "crashed"}
            /\ \A d \in Docs :
                  /\ hist'[d].ocr_runs \in {hist[d].ocr_runs, hist[d].ocr_runs + 1}
                  /\ hist'[d].ocr_runs # hist[d].ocr_runs =>
                        (loop_i <= Len(processed_files) /\ processed_files[loop_i] = d)]_vars

\* the audit has ended; it reprocessed a document whose pipeline had already
\* run OCR, and left the second OCR document though it is below the threshold
C17_Witness ==
    /\ mode = "batch" /\ mainpc = "done"
    /\ \E d \in Docs :
          /\ hist[d].ocr_runs = 2
          /\ hist[d].audit = "reprocessed"
          /\ fs[DocxPath(d)] # <<>> /\ fs[DocxPath(d)][1].size < size_threshold

\* the texts of the paragraphs ps in reading order (a detection's text is one
\* character here, and the paragraphs join the texts with spaces)
ReadTexts(ps) ==
    LET NotSpace(c) == c # " " IN SelectSeq(JoinWith(<<>>, ps), NotSpace)

\* C18: on a page with at least one surviving detection, every surviving
\* detection's text appears exactly once across the page's paragraphs, the
\* paragraphs read in order give the detections in ascending top-y order, and
\* no paragraph is empty.
C18_NoTextLostOrDuplicated ==
    ("result0" \in DOMAIN arg /\ ret # <<>>) =>
        LET surv == SelectSeq(arg.result0, Survives)
            idx == 1..Len(surv)
            read == ReadTexts(ret[1])
            Below(y) == Cardinality({i \in idx : TopY(surv[i]) < y})
            UpTo(y) == Cardinality({i \in idx : TopY(surv[i]) <= y})
        IN  surv # <<>> =>
                /\ Len(read) = Len(surv)
                /\ \A i \in idx : \A t \in {"a", "b"} :
                      LET y == TopY(surv[i])
                      IN  Cardinality({k \in (Below(y) + 1)..UpTo(y) : read[k] = t})
                            = Cardinality({j \in idx : /\ TopY(surv[j]) = y
                                                       /\ BlockText(surv[j]) = <<t>>})
                /\ ret[1] # <<>>
                /\ \A k \in 1..Len(ret[1]) : ret[1][k] # <<>> /\ ReadTexts(<<ret[1][k]>>) # <<>>

\* two surviving detections arrived lower one first and came out as two
\* paragraphs, upper one first
C18_Witness ==
    /\ "result0" \in DOMAIN arg /\ ret # <<>>
    /\ Len(arg.result0) = 2
    /\ Survives(arg.result0[1]) /\ Survives(arg.result0[2])
    /\ TopY(arg.result0[1]) = 60 /\ TopY(arg.result0[2]) = 10
    /\ BlockText(arg.result0[1]) = <<"b">> /\ BlockText(arg.result0[2]) = <<"a">>
    /\ ret[1] = << <<"a">>, <<"b">> >>

\* a strategy's result is non-trivial: it holds a non-whitespace character and
\* is at least 50 characters long
NonTrivial(t) == (\E i \in 1..Len(t) : t[i] \notin Whitespace) /\ Len(t) >= MinTextLen

\* the results of the plain, the block and the structured strategy on a page
PlainResult(page) == page.text

BlockResult(page) == JoinWith(<<"\n", "\n">>, BlockTexts(page.blocks))

StructuredResult(page) == JoinWith(<<"\n">>, TextParts(page.dict.blocks))

\* C19: the text used for a page is the result of the first of the plain, block
\* and structured strategies whose result is non-trivial; no later strategy is
\* run after a non-trivial result; if all three are trivial the text is the
\* result of the structured strategy.
C19_FirstNonTrivialStrategy ==
    ("page" \in DOMAIN arg /\ ret # <<>>) =>
        LET s1 == PlainResult(arg.page)
            s2 == BlockResult(arg.page)
            s3 == StructuredResult(arg.page)
        IN  /\ ret[1].text = IF NonTrivial(s1) THEN s1
                             ELSE IF NonTrivial(s2) THEN s2 ELSE s3
            /\ ret[1].calls = IF NonTrivial(s1) THEN <<"text">>
                              ELSE IF NonTrivial(s2) THEN <<"text", "blocks">>
                              ELSE <<"text", "blocks", "dict">>

\* all three strategies gave trivial results, different ones, and the page text
\* is the structured strategy's
C19_Witness ==
    /\ "page" \in DOMAIN arg /\ ret # <<>>
    /\ ~NonTrivial(PlainResult(arg.page))
    /\ ~NonTrivial(BlockResult(arg.page))
    /\ ~NonTrivial(StructuredResult(arg.page))
    /\ PlainResult(arg.page) # <<>> /\ BlockResult(arg.page) # <<>>
    /\ StructuredResult(arg.page) = <<"a", " ", "b">>
    /\ ret[1].text = <<"a", " ", "b">>
    /\ ret[1].calls = <<"text", "blocks", "dict">>

====
